---- MODULE Spec2Model ----
(***************************************************************************)
(* A model of three parts of saleor:                                       *)
(*   - the event-delivery tracker of saleor/plugins/webhook/utils.py       *)
(*     (EventDelivery and EventDeliveryAttempt rows and the five           *)
(*     operations on them),                                                *)
(*   - the response parsers of the same file (payment app ids, tax data),  *)
(*   - the search document builder of saleor/product/search.py.            *)
(* Each part has a specification of its own: SpecTracker, SpecAppId,       *)
(* SpecTax and SpecSearch.  Python's None is modelled by the empty tuple   *)
(* and a present value x by <<x>>, so that a nullable field always holds a *)
(* tuple.  A Python str is a tuple of one-character strings.               *)
(***************************************************************************)
EXTENDS Integers, Sequences, FiniteSets, TLC

VARIABLES
    deliveries,        \* the EventDelivery table: pk -> row
    attempts,          \* the EventDeliveryAttempt table: pk -> row
    next_delivery_pk,  \* the next primary key of the EventDelivery table
    next_attempt_pk,   \* the next primary key of the EventDeliveryAttempt table
    app_gateway_id,    \* a payment gateway identifier, as a str
    made_from,         \* None, or the <<app.pk, gateway_id>> the identifier was made from
    app_data,          \* None before the call, then the outcome of from_payment_app_id
    tax_response, \* the JSON object a tax app answered with
    tax_data,          \* None before the call, then the outcome of parse_tax_data
    product_rows,      \* the Product table: pk -> row
    product,           \* the Product instance its caller holds: a copy of its row
    payment_information, \* the PaymentData of a payment action
    payment_response,  \* the JSON object a payment app answered with
    gateway_response   \* None before the call, then the outcome of parse_payment_action_response

trackerVars == <<deliveries, attempts, next_delivery_pk, next_attempt_pk>>

appIdVars == <<app_gateway_id, made_from, app_data>>

taxVars == <<tax_response, tax_data>>

searchVars == <<product_rows, product>>

paymentVars == <<payment_information, payment_response, gateway_response>>

vars == <<trackerVars, appIdVars, taxVars, searchVars, paymentVars>>

None == <<>>

Some(x) == <<x>>

Range(s) == {s[i] : i \in DOMAIN s}

\* All sequences over S of length at most n.
SeqsUpTo(S, n) == UNION {[1..k -> S] : k \in 0..n}

\* The sequences of SeqsUpTo(S, n) without a repeated element.
DistinctSeqsUpTo(S, n) == {s \in SeqsUpTo(S, n) : Cardinality(Range(s)) = Len(s)}

(***************************************************************************)
(* Event delivery tracker                                                  *)
(***************************************************************************)

\* Bounds of the tracker model.
MaxDeliveries == 2

MaxAttempts == 2

PENDING == "pending"

SUCCESS == "success"

FAILED == "failed"

EventDeliveryStatus == {PENDING, SUCCESS, FAILED}

Webhooks == {"webhook-1", "webhook-2"}

EventTypes == {"order_created"}

EventPayloads == {"payload-1"}

\* The querysets of webhooks an event fans out to: each webhook at most once.
WebhookQuerySets == DistinctSeqsUpTo(Webhooks, Cardinality(Webhooks))

TaskIds == {Some("task-1")}

\* json.dumps of a headers dict (a tuple of <<key, value>> pairs in insertion
\* order) or of None: the JSON text, as a tuple of tokens.
RECURSIVE json_dumps_items(_)
json_dumps_items(items) ==
    IF items = <<>> THEN <<>>
    ELSE <<"\"" \o items[1][1] \o "\"", ": ", "\"" \o items[1][2] \o "\"">>
         \o (IF Len(items) > 1 THEN <<", ">> ELSE <<>>)
         \o json_dumps_items(Tail(items))

json_dumps(obj) ==
    IF obj = None THEN <<"null">>
    ELSE <<"{">> \o json_dumps_items(obj[1]) \o <<"}">>

\* The WebhookResponse values a task hands to attempt_update.
WebhookResponses ==
    { [content |-> "ok", duration |-> 2, status |-> SUCCESS,
       request_headers |-> Some(<< <<"Content-Type", "application/json">> >>),
       response_headers |-> Some(<<>>)],
      [content |-> "error", duration |-> 5, status |-> FAILED,
       request_headers |-> Some(<< <<"Content-Type", "application/json">> >>),
       response_headers |-> None] }

InitTracker ==
    /\ deliveries = <<>>
    /\ attempts = <<>>
    /\ next_delivery_pk = 1
    /\ next_attempt_pk = 1

\* NewDeliveries with the last webhook of the queryset left out.
NewDeliveriesDropLast(webhooks, event_payload, event_type) ==
    [i \in 1..(Len(webhooks) - 1) |->
        [status |-> PENDING, event_type |-> event_type,
         payload |-> event_payload, webhook |-> webhooks[i]]]

\* The rows bulk_create inserts: one per webhook, in the order of the queryset.
NewDeliveries(webhooks, event_payload, event_type) ==
    [i \in 1..Len(webhooks) |->
        [status |-> PENDING, event_type |-> event_type,
         payload |-> event_payload, webhook |-> webhooks[i]]]

\* The table t with the rows of the sequence rows inserted under the primary
\* keys first, first + 1, ...
Insert(t, first, rows) ==
    [pk \in DOMAIN t \cup {first + i - 1 : i \in 1..Len(rows)} |->
        IF pk \in DOMAIN t THEN t[pk] ELSE rows[pk - first + 1]]

\* The table t without the row pk.
Remove(t, pk) == [k \in DOMAIN t \ {pk} |-> t[k]]

\* The list create_event_delivery_list_for_webhooks returns: the created rows,
\* by primary key, in the order of the queryset.
CreatedDeliveries(webhooks) ==
    [i \in 1..Len(webhooks) |-> next_delivery_pk + i - 1]

create_event_delivery_list_for_webhooks(webhooks, event_payload, event_type) ==
    /\ next_delivery_pk + Len(webhooks) - 1 <= MaxDeliveries
    /\ deliveries' = Insert(deliveries, next_delivery_pk,
                            NewDeliveries(webhooks, event_payload, event_type))
    /\ next_delivery_pk' = next_delivery_pk + Len(webhooks)
    /\ UNCHANGED <<attempts, next_attempt_pk>>

\* NewAttempt with the duration started at 0 instead of left null.
NewAttemptZeroDuration(delivery, task_id) ==
    [delivery |-> delivery, task_id |-> task_id, duration |-> Some(0),
     response |-> None, request_headers |-> None, response_headers |-> None,
     status |-> PENDING]

NewAttempt(delivery, task_id) ==
    [delivery |-> delivery, task_id |-> task_id, duration |-> None,
     response |-> None, request_headers |-> None, response_headers |-> None,
     status |-> PENDING]

create_attempt(delivery, task_id) ==
    /\ delivery \in DOMAIN deliveries
    /\ next_attempt_pk <= MaxAttempts
    /\ attempts' = Insert(attempts, next_attempt_pk,
                          <<NewAttempt(delivery, task_id)>>)
    /\ next_attempt_pk' = next_attempt_pk + 1
    /\ UNCHANGED <<deliveries, next_delivery_pk>>

UpdatedAttempt(row, webhook_response) ==
    [row EXCEPT !.duration = Some(webhook_response.duration),
                !.response = Some(webhook_response.content),
                !.response_headers = Some(json_dumps(webhook_response.response_headers)),
                !.request_headers = Some(json_dumps(webhook_response.request_headers)),
                !.status = webhook_response.status]

\* attempt_update that also copies the outcome to the attempt's delivery.
attempt_update_with_delivery(attempt, webhook_response) ==
    /\ attempt \in DOMAIN attempts
    /\ attempts' = [attempts EXCEPT
                        ![attempt] = UpdatedAttempt(attempts[attempt], webhook_response)]
    /\ deliveries' =
            [d \in DOMAIN deliveries |->
                IF d = attempts[attempt].delivery
                THEN [deliveries[d] EXCEPT !.status = webhook_response.status]
                ELSE deliveries[d]]
    /\ UNCHANGED <<next_delivery_pk, next_attempt_pk>>

attempt_update(attempt, webhook_response) ==
    /\ attempt \in DOMAIN attempts
    /\ attempts' = [attempts EXCEPT
                        ![attempt] = UpdatedAttempt(attempts[attempt], webhook_response)]
    /\ UNCHANGED <<deliveries, next_delivery_pk, next_attempt_pk>>

UpdatedDelivery(row, status) == [row EXCEPT !.status = status]

delivery_update(delivery, status) ==
    /\ delivery \in DOMAIN deliveries
    /\ deliveries' = [deliveries EXCEPT
                        ![delivery] = UpdatedDelivery(deliveries[delivery], status)]
    /\ UNCHANGED <<attempts, next_delivery_pk, next_attempt_pk>>

\* What deleting the EventDelivery row does to the EventDeliveryAttempt table:
\* the attempt's reference to its delivery is not owning, so nothing.
AttemptsAfterDelete(atts, delivery) == atts

\* ShouldClear that takes every finished delivery, failed ones included.
ShouldClearFinished(row) == row.status # PENDING

\* The condition under which clear_successful_delivery deletes the row.
ShouldClear(row) == row.status = SUCCESS

clear_successful_delivery(delivery) ==
    /\ delivery \in DOMAIN deliveries
    /\ IF ShouldClear(deliveries[delivery])
       THEN /\ deliveries' = Remove(deliveries, delivery)
            /\ attempts' = AttemptsAfterDelete(attempts, delivery)
       ELSE UNCHANGED <<deliveries, attempts>>
    /\ UNCHANGED <<next_delivery_pk, next_attempt_pk>>

NextTracker ==
    \/ /\ \E webhooks \in WebhookQuerySets,
             event_payload \in EventPayloads, event_type \in EventTypes :
               create_event_delivery_list_for_webhooks(webhooks, event_payload, event_type)
       /\ UNCHANGED <<appIdVars, taxVars, searchVars, paymentVars>>
    \/ /\ \E delivery \in DOMAIN deliveries, task_id \in TaskIds :
               create_attempt(delivery, task_id)
       /\ UNCHANGED <<appIdVars, taxVars, searchVars, paymentVars>>
    \/ /\ \E attempt \in DOMAIN attempts, webhook_response \in WebhookResponses :
               attempt_update(attempt, webhook_response)
       /\ UNCHANGED <<appIdVars, taxVars, searchVars, paymentVars>>
    \/ /\ \E delivery \in DOMAIN deliveries, status \in EventDeliveryStatus :
               delivery_update(delivery, status)
       /\ UNCHANGED <<appIdVars, taxVars, searchVars, paymentVars>>
    \/ /\ \E delivery \in DOMAIN deliveries :
               clear_successful_delivery(delivery)
       /\ UNCHANGED <<appIdVars, taxVars, searchVars, paymentVars>>

\* The parsers are not running while the tracker is looked at.
IdleAppId ==
    /\ app_gateway_id = <<>>
    /\ made_from = None
    /\ app_data = None

IdleTax ==
    /\ tax_response = <<>>
    /\ tax_data = None

IdleSearch ==
    /\ product_rows = <<>>
    /\ product = None

IdlePayment ==
    /\ payment_information = None
    /\ payment_response = <<>>
    /\ gateway_response = None

\* The tracker on its own: empty tables, and no parser at work.
TrackerOnly == InitTracker /\ IdleAppId /\ IdleTax /\ IdleSearch /\ IdlePayment

SpecTracker == TrackerOnly /\ [][NextTracker]_vars

\* The rows of the table t that are also rows of the table u, unchanged there.
Kept(t, u, pks) == \A pk \in pks : pk \in DOMAIN u /\ u[pk] = t[pk]

\* C1: clear_successful_delivery(delivery) deletes the delivery's row if and
\* only if its status is SUCCESS; for a PENDING or FAILED delivery the table
\* is unchanged, and no other delivery's row is ever removed or changed.
C1_ClearIffSuccess ==
    [][\A d \in DOMAIN deliveries :
        clear_successful_delivery(d) =>
            /\ (deliveries[d].status = SUCCESS <=> d \notin DOMAIN deliveries')
            /\ (deliveries[d].status \in {PENDING, FAILED} => deliveries' = deliveries)
            /\ Kept(deliveries, deliveries', DOMAIN deliveries \ {d})]_vars

\* A successful delivery was cleared while another delivery is still stored.
C1_Witness ==
    /\ \E pk \in 1..(next_delivery_pk - 1) : pk \notin DOMAIN deliveries
    /\ \E pk \in DOMAIN deliveries : deliveries[pk].status = FAILED

\* C6 as stated: once a stored delivery's status is SUCCESS or FAILED, no
\* tracker operation changes it to a different status.
C6_TerminalStatusIsFinal ==
    [][\A d \in DOMAIN deliveries \cap DOMAIN deliveries' :
        deliveries[d].status \in {SUCCESS, FAILED} =>
            deliveries'[d].status = deliveries[d].status]_vars

\* C6 as amended: a delivery is created PENDING, and the status of a stored
\* delivery changes only in a delivery_update of that delivery, to the status
\* passed in, whatever the status was before.
C6_OnlyDeliveryUpdateChangesStatus ==
    [][/\ \A d \in DOMAIN deliveries' \ DOMAIN deliveries :
            deliveries'[d].status = PENDING
       /\ \A d \in DOMAIN deliveries \cap DOMAIN deliveries' :
            deliveries'[d].status # deliveries[d].status =>
                \E status \in EventDeliveryStatus :
                    delivery_update(d, status) /\ deliveries'[d].status = status]_vars

\* A delivery has reached a final status while an attempt of it is recorded.
C6_Witness ==
    \E a \in DOMAIN attempts :
        /\ attempts[a].status = FAILED
        /\ attempts[a].delivery \in DOMAIN deliveries
        /\ deliveries[attempts[a].delivery].status \in {SUCCESS, FAILED}

\* C7: create_event_delivery_list_for_webhooks creates exactly one delivery
\* per webhook of the queryset: the returned list is as long as the queryset,
\* its i-th delivery is a new row of its own, PENDING, with the i-th webhook
\* and the payload and event type given; nothing else is created (nothing at
\* all for an empty queryset) and the rows stored before are unchanged.
C7_OneDeliveryPerWebhook ==
    [][\A webhooks \in WebhookQuerySets, event_payload \in EventPayloads,
          event_type \in EventTypes :
        create_event_delivery_list_for_webhooks(webhooks, event_payload, event_type) =>
            LET returned == CreatedDeliveries(webhooks) IN
            /\ Len(returned) = Len(webhooks)
            /\ Cardinality(Range(returned)) = Len(webhooks)
            /\ \A i \in 1..Len(webhooks) :
                /\ returned[i] \notin DOMAIN deliveries
                /\ returned[i] \in DOMAIN deliveries'
                /\ deliveries'[returned[i]] =
                        [status |-> PENDING, event_type |-> event_type,
                         payload |-> event_payload, webhook |-> webhooks[i]]
            /\ DOMAIN deliveries' = DOMAIN deliveries \cup Range(returned)
            /\ Kept(deliveries, deliveries', DOMAIN deliveries)
            /\ (webhooks = <<>> => deliveries' = deliveries)
            /\ attempts' = attempts]_vars

\* One event was fanned out to both webhooks: two pending deliveries, one each.
C7_Witness ==
    /\ DOMAIN deliveries = {1, 2}
    /\ \A d \in {1, 2} : deliveries[d].status = PENDING
    /\ {deliveries[d].webhook : d \in {1, 2}} = Webhooks

MaxPk == 11

MaxSegments == 4

APP_ID_PREFIX == <<"a", "p", "p">>

DigitChars == <<"0", "1", "2", "3", "4", "5", "6", "7", "8", "9">>

IsDigit(c) == \E i \in 1..10 : DigitChars[i] = c

DigitValue(c) == (CHOOSE i \in 1..10 : DigitChars[i] = c) - 1

\* str(n) of a natural number n.
RECURSIVE str_nat(_)
str_nat(n) ==
    IF n < 10 THEN <<DigitChars[n + 1]>>
    ELSE str_nat(n \div 10) \o <<DigitChars[(n % 10) + 1]>>

\* str(n) of an int: what an f-string puts for {app.pk}.
str_int(n) == IF n < 0 THEN <<"-">> \o str_nat(-n) ELSE str_nat(n)

\* s.split(sep) for a one-character sep: the segments between the separators,
\* one more than there are separators.
RECURSIVE split(_, _)
split(s, sep) ==
    IF \A i \in 1..Len(s) : s[i] # sep THEN <<s>>
    ELSE LET i == CHOOSE k \in 1..Len(s) :
                    s[k] = sep /\ \A j \in 1..(k - 1) : s[j] # sep
         IN <<SubSeq(s, 1, i - 1)>> \o split(SubSeq(s, i + 1, Len(s)), sep)

\* s.strip(), with the space as the only whitespace of the model's alphabet.
RECURSIVE strip(_)
strip(s) ==
    IF s = <<>> THEN s
    ELSE IF s[1] = " " THEN strip(Tail(s))
    ELSE IF s[Len(s)] = " " THEN strip(SubSeq(s, 1, Len(s) - 1))
    ELSE s

\* The digits of an int literal's body: digits, single underscores between them.
IsIntBody(b) ==
    /\ b # <<>>
    /\ IsDigit(b[1]) /\ IsDigit(b[Len(b)])
    /\ \A i \in 1..Len(b) : IsDigit(b[i]) \/ b[i] = "_"
    /\ \A i \in 1..(Len(b) - 1) : ~(b[i] = "_" /\ b[i + 1] = "_")

RECURSIVE IntBodyValue(_)
IntBodyValue(b) ==
    IF b = <<>> THEN 0
    ELSE IF b[Len(b)] = "_" THEN IntBodyValue(SubSeq(b, 1, Len(b) - 1))
    ELSE 10 * IntBodyValue(SubSeq(b, 1, Len(b) - 1)) + DigitValue(b[Len(b)])

\* int(s) for a str s: surrounding whitespace is dropped, a sign may lead,
\* and the rest must be decimal digits; anything else is a ValueError.
int(s) ==
    LET t == strip(s)
        signed == t # <<>> /\ t[1] \in {"+", "-"}
        body == IF signed THEN Tail(t) ELSE t
    IN IF IsIntBody(body)
       THEN [raised |-> "",
             value |-> IF signed /\ t[1] = "-" THEN -IntBodyValue(body)
                       ELSE IntBodyValue(body)]
       ELSE [raised |-> "ValueError", value |-> 0]

\* to_payment_app_id with the gateway id and the app pk in each other's place.
to_payment_app_id_swapped(app_pk, gateway_id) ==
    APP_ID_PREFIX \o <<":">> \o gateway_id \o <<":">> \o str_int(app_pk)

to_payment_app_id(app_pk, gateway_id) ==
    APP_ID_PREFIX \o <<":">> \o str_int(app_pk) \o <<":">> \o gateway_id

\* all(splitted_id): no segment is the empty str.
all(splitted_id) == \A i \in 1..Len(splitted_id) : splitted_id[i] # <<>>

\* The outcome of a call: the exception that left it (none: ""), or else the
\* value returned, None or a PaymentAppData.
Returned(value) == [raised |-> "", value |-> value]

Raised(exception) == [raised |-> exception, value |-> None]

PaymentAppData(app_pk, name) == [app_pk |-> app_pk, name |-> name]

\* from_payment_app_id without the check that every segment is non-empty.
from_payment_app_id_no_all(id) ==
    LET splitted_id == split(id, ":") IN
    IF Len(splitted_id) = 3 /\ splitted_id[1] = APP_ID_PREFIX
    THEN LET app_pk == int(splitted_id[2]) IN
         IF app_pk.raised \in {"TypeError", "ValueError"} THEN Returned(None)
         ELSE IF app_pk.raised # "" THEN Raised(app_pk.raised)
         ELSE Returned(Some(PaymentAppData(app_pk.value, splitted_id[3])))
    ELSE Returned(None)

from_payment_app_id(id) ==
    LET splitted_id == split(id, ":") IN
    IF Len(splitted_id) = 3 /\ splitted_id[1] = APP_ID_PREFIX /\ all(splitted_id)
    THEN LET app_pk == int(splitted_id[2]) IN
         IF app_pk.raised \in {"TypeError", "ValueError"} THEN Returned(None)
         ELSE IF app_pk.raised # "" THEN Raised(app_pk.raised)
         ELSE Returned(Some(PaymentAppData(app_pk.value, splitted_id[3])))
    ELSE Returned(None)

\* The segments the identifiers received from outside are built of.
Segments ==
    { <<>>, <<"a", "p", "p">>, <<"A", "p", "p">>, <<"7">>, <<"0", "7">>,
      <<" ", "7">>, <<"-", "3">>, <<"1", "_", "0">>, <<"7", "x">>,
      <<"s", "t", "r", "i", "p", "e">> }

\* The gateway ids an app reports, colon and empty id included.
GatewayIds ==
    { <<"s", "t", "r", "i", "p", "e">>, <<"7">>, <<"a", ":", "b">>, <<>>,
      <<"p", "a", "y", " ", "1">> }

\* sep.join(segments)
RECURSIVE join(_, _)
join(sep, segments) ==
    IF segments = <<>> THEN <<>>
    ELSE IF Len(segments) = 1 THEN segments[1]
    ELSE segments[1] \o <<sep>> \o join(sep, Tail(segments))

\* The identifiers received from outside: every str is the join of its
\* colon-free segments, at least one.
ReceivedIds ==
    {join(":", segments) : segments \in SeqsUpTo(Segments, MaxSegments) \ {<<>>}}

InitAppId ==
    /\ app_gateway_id \in ReceivedIds
    /\ made_from = None
    /\ app_data = None

\* An app's gateway gets its identifier.
MakeId(app_pk, gateway_id) ==
    /\ app_gateway_id' = to_payment_app_id(app_pk, gateway_id)
    /\ made_from' = Some(<<app_pk, gateway_id>>)
    /\ app_data' = None

\* The identifier is parsed.
ParseId ==
    /\ app_data' = Some(from_payment_app_id(app_gateway_id))
    /\ UNCHANGED <<app_gateway_id, made_from>>

NextAppId ==
    \/ /\ \E app_pk \in 1..MaxPk, gateway_id \in GatewayIds : MakeId(app_pk, gateway_id)
       /\ UNCHANGED <<trackerVars, taxVars, searchVars, paymentVars>>
    \/ /\ ParseId
       /\ UNCHANGED <<trackerVars, taxVars, searchVars, paymentVars>>

\* The identifier parser on its own.
AppIdOnly == InitAppId /\ InitTracker /\ IdleTax /\ IdleSearch /\ IdlePayment

SpecAppId == AppIdOnly /\ [][NextAppId]_vars

\* A gateway id that gives an identifier of the form app:<pk>:<id>: it is
\* not empty and holds no colon.
ValidGatewayId(gateway_id) ==
    /\ gateway_id # <<>>
    /\ \A i \in 1..Len(gateway_id) : gateway_id[i] # ":"

\* C2: for every app pk and gateway id that form a valid app:<pk>:<id>
\* identifier, from_payment_app_id of to_payment_app_id(app, id) returns a
\* PaymentAppData with that pk as app_pk and that id as name.
C2_RoundTrip ==
    (app_data # None /\ made_from # None /\ ValidGatewayId(made_from[1][2])) =>
        app_data[1] = Returned(Some(PaymentAppData(made_from[1][1], made_from[1][2])))

\* The identifier of gateway "stripe" of app 7 was parsed back.
C2_Witness ==
    /\ made_from = Some(<<7, <<"s", "t", "r", "i", "p", "e">> >>)
    /\ app_gateway_id = <<"a", "p", "p", ":", "7", ":", "s", "t", "r", "i", "p", "e">>
    /\ app_data = Some(Returned(Some(PaymentAppData(7, <<"s", "t", "r", "i", "p", "e">>))))

\* The number of colon-separated segments of id, and the k-th of them, read
\* off the positions of the colons.
Colons(id) == {i \in 1..Len(id) : id[i] = ":"}

SegmentOf(id, k) ==
    LET starts == {1} \cup {i + 1 : i \in Colons(id)}
        start == CHOOSE b \in starts : Cardinality({c \in starts : c < b}) = k - 1
        stop == IF \E c \in Colons(id) : c >= start
                THEN (CHOOSE c \in Colons(id) : c >= start /\
                        \A e \in Colons(id) : e >= start => c <= e) - 1
                ELSE Len(id)
    IN SubSeq(id, start, stop)

\* The defects of an identifier: not three segments, a first segment that is
\* not "app", a second that int() does not take for an integer, an empty one.
Malformed(id) ==
    LET n == Cardinality(Colons(id)) + 1 IN
    \/ n # 3
    \/ SegmentOf(id, 1) # <<"a", "p", "p">>
    \/ int(SegmentOf(id, 2)).raised # ""
    \/ \E k \in 1..n : SegmentOf(id, k) = <<>>

\* C3: from_payment_app_id never raises, returns None for every malformed
\* identifier (a segment count other than 3, a first segment other than
\* "app", a second segment that is no integer, an empty segment), and so
\* returns a PaymentAppData only for an identifier with none of the defects.
C3_MalformedGivesNone ==
    app_data # None =>
        /\ app_data[1].raised = ""
        /\ (Malformed(app_gateway_id) => app_data[1].value = None)

\* An identifier with an empty last segment was parsed, to None.
C3_Witness ==
    /\ app_data = Some(Returned(None))
    /\ app_gateway_id = <<"a", "p", "p", ":", "7", ":">>


(***************************************************************************)
(* Tax data                                                                *)
(***************************************************************************)

\* Bounds of the tax model: the lines of a response, and the fields of it
\* that differ from a well-formed response.
MaxLines == 1

MaxDefects == 2

\* A JSON value is <<type, text>>: a string with its characters, an integer
\* number with its digits, null, the empty array [] and the empty object {}.
JString(chars) == <<"string", chars>>

JNumber(digits) == <<"number", digits>>

JNull == <<"null", <<>>>>

JArray == <<"array", <<>>>>

JObject == <<"object", <<>>>>

\* The digits of a decimal literal: digits with at most one point among them.
IsDecimalBody(b) ==
    /\ \E i \in 1..Len(b) : IsDigit(b[i])
    /\ \A i \in 1..Len(b) : IsDigit(b[i]) \/ b[i] = "."
    /\ Cardinality({i \in 1..Len(b) : b[i] = "."}) <= 1

RECURSIVE Coefficient(_)
Coefficient(b) ==
    IF b = <<>> THEN 0
    ELSE IF b[Len(b)] = "." THEN Coefficient(SubSeq(b, 1, Len(b) - 1))
    ELSE 10 * Coefficient(SubSeq(b, 1, Len(b) - 1)) + DigitValue(b[Len(b)])

\* The exponent: minus the number of digits after the point.
Exponent(b) ==
    IF \E i \in 1..Len(b) : b[i] = "."
    THEN (CHOOSE i \in 1..Len(b) : b[i] = ".") - Len(b)
    ELSE 0

\* decimal.Decimal(value) of a JSON value as json.loads gives it. A str must
\* be a decimal literal (over the model's alphabet: sign, digits, point,
\* surrounding whitespace) or the call raises InvalidOperation; an int is
\* taken as it is; None and a dict raise TypeError; a list that is not a
\* (sign, digits, exponent) triple raises ValueError.
Decimal(value) ==
    CASE value[1] = "string" ->
            LET t == strip(value[2])
                signed == t # <<>> /\ t[1] \in {"+", "-"}
                body == IF signed THEN Tail(t) ELSE t
            IN IF IsDecimalBody(body)
               THEN Returned(<<IF signed /\ t[1] = "-" THEN 1 ELSE 0,
                               Coefficient(body), Exponent(body)>>)
               ELSE Raised("InvalidOperation")
      [] value[1] = "number" -> Returned(<<0, IntBodyValue(value[2]), 0>>)
      [] value[1] = "null" -> Raised("TypeError")
      [] value[1] = "object" -> Raised("TypeError")
      [] value[1] = "array" -> Raised("ValueError")

\* obj[key] of a dict: the value, or KeyError.
GetItem(obj, key) ==
    IF key \in DOMAIN obj THEN Returned(obj[key]) ELSE Raised("KeyError")

\* The statements of a parser, in order: each reads obj[key] and, for an
\* amount or a rate, converts it with Decimal. The outcome is the exception
\* of the first statement that raises, or else the values read.
RECURSIVE ReadFields(_, _)
ReadFields(obj, statements) ==
    IF statements = <<>> THEN Returned(<<>>)
    ELSE LET key == statements[1][1]
             item == GetItem(obj, key)
             read == IF item.raised # "" THEN item
                     ELSE IF statements[1][2] THEN Decimal(item.value)
                     ELSE item
         IN IF read.raised # "" THEN Raised(read.raised)
            ELSE LET rest == ReadFields(obj, Tail(statements)) IN
                 IF rest.raised # "" THEN rest
                 ELSE Returned(<<read.value>> \o rest.value)

\* The keys _unsafe_parse_tax_line_data reads, in its order; TRUE: a Decimal.
TaxLineStatements ==
    << <<"id", FALSE>>, <<"currency", FALSE>>, <<"unit_net_amount", TRUE>>,
       <<"unit_gross_amount", TRUE>>, <<"total_gross_amount", TRUE>>,
       <<"total_net_amount", TRUE>>, <<"tax_rate", TRUE>> >>

\* The keys _unsafe_parse_tax_data reads before the lines, in its order.
TaxDataStatements ==
    << <<"currency", FALSE>>, <<"total_net_amount", TRUE>>,
       <<"total_gross_amount", TRUE>>, <<"subtotal_net_amount", TRUE>>,
       <<"subtotal_gross_amount", TRUE>>, <<"shipping_price_gross_amount", TRUE>>,
       <<"shipping_price_net_amount", TRUE>>, <<"shipping_tax_rate", TRUE>> >>

\* The record of the values read, under the keys of the statements.
AsRecord(statements, values) ==
    [key \in {statements[i][1] : i \in 1..Len(statements)} |->
        values[CHOOSE i \in 1..Len(statements) : statements[i][1] = key]]

_unsafe_parse_tax_line_data(tax_line_data_response) ==
    LET read == ReadFields(tax_line_data_response, TaxLineStatements) IN
    IF read.raised # "" THEN read
    ELSE Returned(AsRecord(TaxLineStatements, read.value))

\* The list comprehension over tax_data_response["lines"]: the parsed lines,
\* or the exception of the first line that raises.
RECURSIVE ParseLines(_)
ParseLines(lines) ==
    IF lines = <<>> THEN Returned(<<>>)
    ELSE LET first == _unsafe_parse_tax_line_data(lines[1]) IN
         IF first.raised # "" THEN Raised(first.raised)
         ELSE LET rest == ParseLines(Tail(lines)) IN
              IF rest.raised # "" THEN rest
              ELSE Returned(<<first.value>> \o rest.value)

\* A response is [fields: the dict without its "lines", lines: None when the
\* key "lines" is missing, or else the list of line dicts under it].
_unsafe_parse_tax_data(tax_data_response) ==
    LET read == ReadFields(tax_data_response.fields, TaxDataStatements) IN
    IF read.raised # "" THEN read
    ELSE IF tax_data_response.lines = None THEN Raised("KeyError")
    ELSE LET lines == ParseLines(tax_data_response.lines[1]) IN
         IF lines.raised # "" THEN lines
         ELSE Returned([fields |-> AsRecord(TaxDataStatements, read.value),
                        lines |-> lines.value])

\* The classes except (KeyError, decimal.DecimalException) catches:
\* InvalidOperation is a DecimalException.
CaughtByParseTaxData == {"KeyError", "DecimalException", "InvalidOperation"}

parse_tax_data(response_data) ==
    LET parsed == _unsafe_parse_tax_data(response_data) IN
    IF parsed.raised = "" THEN Returned(Some(parsed.value))
    ELSE IF parsed.raised \in CaughtByParseTaxData THEN Returned(None)
    ELSE Raised(parsed.raised)

TaxLineKeys == {TaxLineStatements[i][1] : i \in 1..Len(TaxLineStatements)}

TaxDataKeys == {TaxDataStatements[i][1] : i \in 1..Len(TaxDataStatements)}

AmountKeys(statements) ==
    {statements[i][1] : i \in {j \in 1..Len(statements) : statements[j][2]}}

\* A well-formed response with n lines.
GoodAmount == JString(<<"1", "2", ".", "5", "0">>)

GoodText == JString(<<"U", "S", "D">>)

GoodLine ==
    [key \in TaxLineKeys |->
        IF key \in AmountKeys(TaxLineStatements) THEN GoodAmount ELSE GoodText]

GoodResponse(n) ==
    [fields |-> [key \in TaxDataKeys |->
                    IF key \in AmountKeys(TaxDataStatements) THEN GoodAmount
                    ELSE GoodText],
     lines |-> Some([i \in 1..n |-> GoodLine])]

\* The values an app may send where an amount or a rate is due, other than
\* the decimal string of the well-formed response.
OtherAmounts ==
    { JNumber(<<"7">>), JString(<<"1", "x">>), JNull, JArray, JObject }

\* The number of places where a response differs from the well-formed one.
DictDefects(obj, good) ==
    Cardinality({key \in DOMAIN good : key \notin DOMAIN obj \/ obj[key] # good[key]})

RECURSIVE SumDefects(_)
SumDefects(lines) ==
    IF lines = <<>> THEN 0
    ELSE DictDefects(lines[1], GoodLine) + SumDefects(Tail(lines))

Defects(response) ==
    DictDefects(response.fields, GoodResponse(0).fields)
    + (IF response.lines = None THEN 1 ELSE SumDefects(response.lines[1]))

Without(obj, key) == [k \in DOMAIN obj \ {key} |-> obj[k]]

With(obj, key, value) ==
    [k \in DOMAIN obj \cup {key} |-> IF k = key THEN value ELSE obj[k]]

InitTax ==
    /\ tax_response \in {GoodResponse(n) : n \in 0..MaxLines}
    /\ tax_data = None

CanDiffer == tax_data = None /\ Defects(tax_response) < MaxDefects

\* The app leaves a key out of the response.
OmitField(key) ==
    /\ CanDiffer
    /\ key \in DOMAIN tax_response.fields
    /\ tax_response' =
            [tax_response EXCEPT !.fields = Without(@, key)]
    /\ UNCHANGED tax_data

\* The app leaves the lines out of the response.
OmitLines ==
    /\ CanDiffer
    /\ tax_response.lines # None
    /\ tax_response' = [tax_response EXCEPT !.lines = None]
    /\ UNCHANGED tax_data

\* The app leaves a key out of a line.
OmitLineField(i, key) ==
    /\ CanDiffer
    /\ tax_response.lines # None
    /\ i \in DOMAIN tax_response.lines[1]
    /\ key \in DOMAIN tax_response.lines[1][i]
    /\ tax_response' =
            [tax_response EXCEPT !.lines[1][i] = Without(@, key)]
    /\ UNCHANGED tax_data

\* The app sends another value for an amount or a rate.
SendAmount(key, value) ==
    /\ CanDiffer
    /\ key \in DOMAIN tax_response.fields
    /\ tax_response.fields[key] = GoodAmount
    /\ tax_response' =
            [tax_response EXCEPT !.fields = With(@, key, value)]
    /\ UNCHANGED tax_data

\* The app sends another value for an amount or a rate of a line.
SendLineAmount(i, key, value) ==
    /\ CanDiffer
    /\ tax_response.lines # None
    /\ i \in DOMAIN tax_response.lines[1]
    /\ key \in DOMAIN tax_response.lines[1][i]
    /\ tax_response.lines[1][i][key] = GoodAmount
    /\ tax_response' =
            [tax_response EXCEPT !.lines[1][i] = With(@, key, value)]
    /\ UNCHANGED tax_data

\* The response is parsed.
ParseTaxData ==
    /\ tax_data = None
    /\ tax_data' = Some(parse_tax_data(tax_response))
    /\ UNCHANGED tax_response

NextTax ==
    \/ /\ \E key \in TaxDataKeys : OmitField(key)
       /\ UNCHANGED <<trackerVars, appIdVars, searchVars, paymentVars>>
    \/ /\ OmitLines
       /\ UNCHANGED <<trackerVars, appIdVars, searchVars, paymentVars>>
    \/ /\ \E i \in 1..MaxLines, key \in TaxLineKeys : OmitLineField(i, key)
       /\ UNCHANGED <<trackerVars, appIdVars, searchVars, paymentVars>>
    \/ /\ \E key \in AmountKeys(TaxDataStatements), value \in OtherAmounts :
               SendAmount(key, value)
       /\ UNCHANGED <<trackerVars, appIdVars, searchVars, paymentVars>>
    \/ /\ \E i \in 1..MaxLines, key \in AmountKeys(TaxLineStatements),
             value \in OtherAmounts : SendLineAmount(i, key, value)
       /\ UNCHANGED <<trackerVars, appIdVars, searchVars, paymentVars>>
    \/ /\ ParseTaxData
       /\ UNCHANGED <<trackerVars, appIdVars, searchVars, paymentVars>>

\* The tax parser on its own.
TaxOnly == InitTax /\ InitTracker /\ IdleAppId /\ IdleSearch /\ IdlePayment

SpecTax == TaxOnly /\ [][NextTax]_vars

\* A required key is missing: one of the response, its "lines", or a key of
\* one of its lines.
MissingKey(response) ==
    \/ DOMAIN response.fields # TaxDataKeys
    \/ response.lines = None
    \/ /\ response.lines # None
       /\ \E i \in DOMAIN response.lines[1] :
            DOMAIN response.lines[1][i] # TaxLineKeys

\* A value that is no decimal: a string that is no decimal literal, null, a
\* list, an object.
NonDecimal(value) ==
    \/ value[1] \in {"null", "array", "object"}
    \/ value[1] = "string" /\ value \notin {GoodAmount}

\* Some amount or rate that is present holds a value that is no decimal.
NonDecimalAmount(response) ==
    \/ \E key \in AmountKeys(TaxDataStatements) \cap DOMAIN response.fields :
            NonDecimal(response.fields[key])
    \/ /\ response.lines # None
       /\ \E i \in DOMAIN response.lines[1] :
            \E key \in AmountKeys(TaxLineStatements) \cap DOMAIN response.lines[1][i] :
                NonDecimal(response.lines[1][i][key])

\* C4: for any JSON object missing a required tax field (a key of the
\* response, its lines, or a key of a line), parse_tax_data returns None
\* and does not raise.
C4_MissingFieldGivesNone ==
    (tax_data # None /\ MissingKey(tax_response)) =>
        tax_data[1] = Returned(None)

\* C5: for any tax JSON object with every required key present in which
\* some amount or rate holds a value that is no decimal, whatever its JSON
\* type, parse_tax_data returns None and does not raise.
C5_NonDecimalGivesNone ==
    (tax_data # None /\ ~MissingKey(tax_response)
        /\ NonDecimalAmount(tax_response)) =>
        tax_data[1] = Returned(None)

(***************************************************************************)
(* Product search document and search vector                               *)
(***************************************************************************)

\* Bounds of the search model: the attributes assigned to a product, the
\* values of an assigned attribute, the variants of a product.
MaxAttributes == 5

MaxValues == 2

MaxVariants == 1

UpperChars ==
    <<"A", "B", "C", "D", "E", "F", "G", "H", "I", "J", "K", "L", "M",
      "N", "O", "P", "Q", "R", "S", "T", "U", "V", "W", "X", "Y", "Z">>

LowerChars ==
    <<"a", "b", "c", "d", "e", "f", "g", "h", "i", "j", "k", "l", "m",
      "n", "o", "p", "q", "r", "s", "t", "u", "v", "w", "x", "y", "z">>

\* The lowercase letter of each uppercase letter.
LowerOf ==
    [c \in Range(UpperChars) |-> LowerChars[CHOOSE k \in 1..26 : UpperChars[k] = c]]

IsUpper(c) == c \in DOMAIN LowerOf

\* s.lower()
lower(s) == [i \in 1..Len(s) |-> IF IsUpper(s[i]) THEN LowerOf[s[i]] ELSE s[i]]

PRODUCT_SEARCH_FIELDS == <<"name", "description_plaintext">>

DROPDOWN == "dropdown"

MULTISELECT == "multiselect"

RICH_TEXT == "rich-text"

NUMERIC == "numeric"

DATE == "date"

DATE_TIME == "date-time"

FILE == "file"

\* The concatenation of the strings of a sequence.
RECURSIVE concat(_)
concat(strings) ==
    IF strings = <<>> THEN <<>> ELSE strings[1] \o concat(Tail(strings))

\* clean_editor_js(definitions, to_string=True): the text of the blocks
\* without its markup, the blocks joined by a space; "" for no definitions.
\* A block is a sequence of characters and tags, a tag being one element of
\* more than one character.
Tags == {"<b>", "</b>", "<i>", "</i>"}

IsTag(token) == token \in Tags

PlainBlock(block) == SelectSeq(block, LAMBDA token : ~IsTag(token))

clean_editor_js(definitions) ==
    IF definitions = None THEN <<>>
    ELSE join(" ", [i \in 1..Len(definitions[1]) |-> PlainBlock(definitions[1][i])])

\* n as decimal digits, zero-padded to the given width.
RECURSIVE zfill(_, _)
zfill(digits, width) ==
    IF Len(digits) >= width THEN digits ELSE zfill(<<"0">> \o digits, width)

DateText(d) ==
    zfill(str_nat(d.year), 4) \o <<"-">> \o zfill(str_nat(d.month), 2)
    \o <<"-">> \o zfill(str_nat(d.day), 2)

TimeText(d) ==
    zfill(str_nat(d.hour), 2) \o <<":">> \o zfill(str_nat(d.minute), 2)
    \o <<":">> \o zfill(str_nat(d.second), 2)

\* datetime.isoformat() of an aware UTC datetime without microseconds.
isoformat(d) ==
    DateText(d) \o <<"T">> \o TimeText(d) \o <<"+", "0", "0", ":", "0", "0">>

\* datetime.strftime("%Y-%m-%d %H:%M:%S")
strftime(d) == DateText(d) \o <<" ">> \o TimeText(d)

\* x or "" for an optional str
OrEmpty(x) == IF x = None THEN <<>> ELSE x[1]

\* DocumentValuesList with the numeric rendering of the search vector: a space
\* between the value's name and the unit.
DocumentValuesListSpaced(assigned_attribute) ==
    LET attribute == assigned_attribute.attribute
        input_type == attribute.input_type
        values == assigned_attribute.values
    IN IF input_type \in {DROPDOWN, MULTISELECT}
       THEN [i \in 1..Len(values) |-> values[i].name]
       ELSE IF input_type = RICH_TEXT
       THEN [i \in 1..Len(values) |-> clean_editor_js(values[i].rich_text)]
       ELSE IF input_type = NUMERIC
       THEN [i \in 1..Len(values) |->
                values[i].name \o <<" ">> \o OrEmpty(attribute.unit)]
       ELSE IF input_type \in {DATE, DATE_TIME}
       THEN [i \in 1..Len(values) |-> isoformat(values[i].date_time)]
       ELSE <<>>

\* The values_list of generate_attributes_search_document_value for one
\* assigned attribute.
DocumentValuesList(assigned_attribute) ==
    LET attribute == assigned_attribute.attribute
        input_type == attribute.input_type
        values == assigned_attribute.values
    IN IF input_type \in {DROPDOWN, MULTISELECT}
       THEN [i \in 1..Len(values) |-> values[i].name]
       ELSE IF input_type = RICH_TEXT
       THEN [i \in 1..Len(values) |-> clean_editor_js(values[i].rich_text)]
       ELSE IF input_type = NUMERIC
       THEN [i \in 1..Len(values) |-> values[i].name \o OrEmpty(attribute.unit)]
       ELSE IF input_type \in {DATE, DATE_TIME}
       THEN [i \in 1..Len(values) |-> isoformat(values[i].date_time)]
       ELSE <<>>

RECURSIVE generate_attributes_search_document_value(_)
generate_attributes_search_document_value(assigned_attributes) ==
    IF assigned_attributes = <<>> THEN <<>>
    ELSE LET n == Len(assigned_attributes)
             before == generate_attributes_search_document_value(
                            SubSeq(assigned_attributes, 1, n - 1))
             values_list == DocumentValuesList(assigned_attributes[n])
         IN lower(IF values_list # <<>>
                  THEN before \o join("\n", values_list) \o <<"\n">>
                  ELSE before)

\* getattr(product, field), with the empty str falsy.
ProductFieldValues(product_row) ==
    SelectSeq([i \in 1..Len(PRODUCT_SEARCH_FIELDS) |-> product_row[PRODUCT_SEARCH_FIELDS[i]]],
           LAMBDA text : text # <<>>)

generate_product_fields_search_document_value(product_row) ==
    LET value == join("\n", ProductFieldValues(product_row)) IN
    lower(IF value # <<>> THEN value \o <<"\n">> ELSE value)

\* [variant.sku for variant in variants if variant.sku]
Skus(variants) ==
    LET with_sku == SelectSeq(variants, LAMBDA variant : OrEmpty(variant.sku) # <<>>)
    IN [i \in 1..Len(with_sku) |-> with_sku[i].sku[1]]

generate_variants_search_document_value(product_row) ==
    LET variants == product_row.variants
        skus == join("\n", Skus(variants))
        variants_data == IF skus # <<>> THEN skus \o <<"\n">> ELSE skus
    IN lower(variants_data
             \o concat([i \in 1..Len(variants) |->
                    generate_attributes_search_document_value(variants[i].attributes)]))

prepare_product_search_document_value(product_row) ==
    lower(generate_product_fields_search_document_value(product_row)
          \o generate_attributes_search_document_value(product_row.attributes)
          \o generate_variants_search_document_value(product_row))

\* SearchVector(*expressions, weight=weight); a sum of search vectors is the
\* sequence of its terms.
SearchVector(expressions, weight) == <<[expressions |-> expressions, weight |-> weight]>>

\* The values_list of generate_attributes_search_vector_value for one
\* assigned attribute.
VectorValuesList(assigned_attribute) ==
    LET attribute == assigned_attribute.attribute
        input_type == attribute.input_type
        values == assigned_attribute.values
    IN IF input_type \in {DROPDOWN, MULTISELECT}
       THEN [i \in 1..Len(values) |-> values[i].name]
       ELSE IF input_type = RICH_TEXT
       THEN [i \in 1..Len(values) |-> clean_editor_js(values[i].rich_text)]
       ELSE IF input_type = NUMERIC
       THEN [i \in 1..Len(values) |->
                values[i].name \o <<" ">> \o OrEmpty(attribute.unit)]
       ELSE IF input_type \in {DATE, DATE_TIME}
       THEN [i \in 1..Len(values) |-> strftime(values[i].date_time)]
       ELSE <<>>

\* None, or the sum of the vectors of the attributes that have values.
generate_attributes_search_vector_value(assigned_attributes) ==
    LET terms == concat([i \in 1..Len(assigned_attributes) |->
                    LET values_list == VectorValuesList(assigned_attributes[i]) IN
                    concat([k \in 1..Len(values_list) |->
                                SearchVector(<<Some(values_list[k])>>, "B")])])
    IN IF terms = <<>> THEN None ELSE Some(terms)

OrNoTerms(vector) == IF vector = None THEN <<>> ELSE vector[1]

generate_variants_search_vector_value(product_row) ==
    LET variants == product_row.variants IN
    IF variants = <<>> THEN None
    ELSE Some(concat([i \in 1..Len(variants) |->
                        SearchVector(<<variants[i].sku, Some(variants[i].name)>>, "A")])
              \o concat([i \in 1..Len(variants) |->
                        OrNoTerms(generate_attributes_search_vector_value(
                                        variants[i].attributes))]))

prepare_product_search_vector_value(product_row) ==
    SearchVector(<<Some(product_row.name)>>, "A")
    \o SearchVector(<<Some(product_row.description_plaintext)>>, "C")
    \o OrNoTerms(generate_attributes_search_vector_value(product_row.attributes))
    \o OrNoTerms(generate_variants_search_vector_value(product_row))

\* The fields both updates hand to save and to bulk_update.
UpdateFields == {"search_document", "updated_at"}

\* The row after instance.save(update_fields=...) or bulk_update(..., fields):
\* the named fields are written from the instance, the others stay.
Saved(row, instance, update_fields) ==
    [field \in DOMAIN row |->
        IF field \in update_fields THEN instance[field] ELSE row[field]]

\* The instance with both derived fields computed and assigned.
Indexed(instance) ==
    [instance EXCEPT
        !.search_document = prepare_product_search_document_value(instance),
        !.search_vector = Some(prepare_product_search_vector_value(instance))]

\* What updated_at can hold: the time of an earlier save, the time of this one.
Timestamps == {"earlier", "now"}

\* save() writes updated_at as well; the field's definition, which decides
\* whether save() refreshes it on the instance first, is in the model class.
update_product_search_document ==
    LET indexed == Indexed(product) IN
    \E updated_at \in Timestamps :
        LET instance == [indexed EXCEPT !.updated_at = updated_at] IN
        /\ product' = instance
        /\ product_rows' = [product_rows EXCEPT
                                ![product.pk] = Saved(@, instance, UpdateFields)]

\* The queryset is fetched anew, each instance is indexed and bulk_update
\* writes the fields it is given from the instances.
update_products_search_document(products) ==
    /\ product_rows' =
            [pk \in DOMAIN product_rows |->
                IF pk \in Range(products)
                THEN Saved(product_rows[pk], Indexed(product_rows[pk]), UpdateFields)
                ELSE product_rows[pk]]
    /\ UNCHANGED product

\* The attributes of the catalogue, one or two of each kind of input type.
Attributes ==
    << [input_type |-> DROPDOWN, unit |-> None],
       [input_type |-> RICH_TEXT, unit |-> None],
       [input_type |-> NUMERIC, unit |-> Some(<<"K", "g">>)],
       [input_type |-> DATE, unit |-> None],
       [input_type |-> FILE, unit |-> None],
       [input_type |-> MULTISELECT, unit |-> None],
       [input_type |-> NUMERIC, unit |-> None],
       [input_type |-> DATE_TIME, unit |-> None] >>

\* The attribute values of the catalogue.
AttributeValues ==
    << [name |-> <<"R", "e", "d">>,
        rich_text |-> Some(<< <<"<b>", "H", "i", "</b>">>, <<"y", "o", "u">> >>),
        date_time |-> [year |-> 2021, month |-> 9, day |-> 1,
                       hour |-> 12, minute |-> 0, second |-> 5]],
       [name |-> <<"1", "0">>,
        rich_text |-> None,
        date_time |-> [year |-> 987, month |-> 12, day |-> 31,
                       hour |-> 0, minute |-> 59, second |-> 0]] >>

\* The first n values of the catalogue, taken in turns.
ValuesList(n) ==
    [i \in 1..n |-> AttributeValues[((i - 1) % Len(AttributeValues)) + 1]]

\* k attributes assigned in the catalogue's order from its start-th on. With
\* staggered, the i-th has (n + i) mod (MaxValues + 1) values; without, each
\* has n.
AssignedAttributes(start, k, n, staggered) ==
    [i \in 1..k |->
        [attribute |-> Attributes[((start + i - 2) % Len(Attributes)) + 1],
         values |-> ValuesList(IF staggered THEN (n + i) % (MaxValues + 1) ELSE n)]]

\* The assignments start at every other attribute of the catalogue.
AttributeLists ==
    {AssignedAttributes(start, k, n, staggered) :
        start \in {1, 3, 5, 7}, k \in 0..MaxAttributes,
        n \in 0..MaxValues, staggered \in BOOLEAN}

\* The variants of the catalogue: one without a SKU and without attributes,
\* one with a SKU and a numeric attribute.
Variants ==
    {[sku |-> None, name |-> <<"X", "L">>, attributes |-> <<>>],
     [sku |-> Some(<<"S", "k", "-", "1">>), name |-> <<"X", "S">>,
      attributes |-> AssignedAttributes(3, 1, 1, FALSE)]}

\* The row of a product that was never indexed.
NewProductRow(pk, name, description_plaintext, attributes, variants) ==
    [pk |-> pk, name |-> name, description_plaintext |-> description_plaintext,
     attributes |-> attributes, variants |-> variants,
     search_document |-> <<>>, search_vector |-> None, updated_at |-> "earlier"]

ProductRows ==
    {NewProductRow(1, <<"T", "e", "e">>, description_plaintext, attributes, variants) :
        description_plaintext \in {<<>>, <<"S", "o", "f", "t">>},
        attributes \in AttributeLists,
        variants \in SeqsUpTo(Variants, MaxVariants)}

\* A second product of the table.
OtherProductRow ==
    NewProductRow(2, <<"C", "a", "p">>, <<>>, AssignedAttributes(1, 1, 1, FALSE), <<>>)

InitSearch ==
    /\ \E row \in ProductRows :
        /\ product_rows = [pk \in {1, 2} |-> IF pk = 1 THEN row ELSE OtherProductRow]
        /\ product = row

\* The querysets of products, in the order of their pk.
ProductQuerySets == {<<>>, <<1>>, <<2>>, <<1, 2>>}

NextSearch ==
    \/ /\ update_product_search_document
       /\ UNCHANGED <<trackerVars, appIdVars, taxVars, paymentVars>>
    \/ /\ \E products \in ProductQuerySets : update_products_search_document(products)
       /\ UNCHANGED <<trackerVars, appIdVars, taxVars, paymentVars>>

\* The search document builder on its own.
SearchOnly == InitSearch /\ InitTracker /\ IdleAppId /\ IdleTax /\ IdlePayment

SpecSearch == SearchOnly /\ [][NextSearch]_vars

\* C8: after update_product_search_document(product) and after
\* update_products_search_document(products), the stored search_document and
\* the stored search_vector of each product are the values computed by
\* prepare_product_search_document_value and
\* prepare_product_search_vector_value.
C8_BothFieldsPersisted ==
    [][/\ update_product_search_document =>
            /\ product_rows'[product.pk].search_document =
                    prepare_product_search_document_value(product)
            /\ product_rows'[product.pk].search_vector =
                    Some(prepare_product_search_vector_value(product))
       /\ \A products \in ProductQuerySets :
            update_products_search_document(products) =>
                \A pk \in Range(products) :
                    /\ product_rows'[pk].search_document =
                            prepare_product_search_document_value(product_rows[pk])
                    /\ product_rows'[pk].search_vector =
                            Some(prepare_product_search_vector_value(product_rows[pk]))]_vars

\* The attributes assigned to a product and to its variants.
AllAssigned(product_row) ==
    product_row.attributes
    \o concat([i \in 1..Len(product_row.variants) |->
                    product_row.variants[i].attributes])

\* The rendered text of one value of an attribute of an indexed input type.
RenderedText(attribute, value) ==
    CASE attribute.input_type \in {DROPDOWN, MULTISELECT} -> value.name
      [] attribute.input_type = RICH_TEXT -> clean_editor_js(value.rich_text)
      [] attribute.input_type = NUMERIC ->
            IF attribute.unit = None THEN value.name
            ELSE value.name \o attribute.unit[1]
      [] attribute.input_type \in {DATE, DATE_TIME} -> isoformat(value.date_time)

IndexedInputTypes == {DROPDOWN, MULTISELECT, RICH_TEXT, NUMERIC, DATE, DATE_TIME}

\* The texts the document is to hold, one per entry: the non-empty product
\* fields, the values of the attributes of the indexed input types, the SKUs.
Entries(product_row) ==
    LET assigned == SelectSeq(AllAssigned(product_row),
                        LAMBDA a : a.attribute.input_type \in IndexedInputTypes)
    IN SelectSeq(<<product_row.name, product_row.description_plaintext>>,
                 LAMBDA text : text # <<>>)
       \o concat([i \in 1..Len(assigned) |->
                    [k \in 1..Len(assigned[i].values) |->
                        RenderedText(assigned[i].attribute, assigned[i].values[k])]])
       \o Skus(product_row.variants)

Contains(text, part) ==
    \E i \in 1..(Len(text) - Len(part) + 1) :
        SubSeq(text, i, i + Len(part) - 1) = part

RECURSIVE SumLen(_)
SumLen(texts) ==
    IF texts = <<>> THEN 0 ELSE Len(texts[1]) + 1 + SumLen(Tail(texts))

\* document is what C9 says of the search document of product_row.
IsSearchDocumentOf(document, product_row) ==
    LET entries == Entries(product_row) IN
    /\ \A i \in 1..Len(entries) : Contains(document, lower(entries[i]) \o <<"\n">>)
    /\ \A i \in 1..Len(document) : ~IsUpper(document[i])
    /\ document = <<>> \/ document[Len(document)] = "\n"
    /\ Len(document) = SumLen(entries)

\* C9: the document prepare_product_search_document_value returns for a
\* product holds every attribute value's rendered text (value name, rich text
\* as plain text, numeric value name immediately followed by the unit, ISO
\* date-time string) in lowercase, each followed by a newline, as are the
\* non-empty product fields and the variant SKUs; it holds no uppercase
\* character, ends with a newline, and holds nothing else: attributes with no
\* values or of another input type contribute nothing. Checked on the
\* document every update leaves on the instance and in the table.
C9_DocumentContent ==
    /\ product.search_vector # None =>
            /\ product.search_document = prepare_product_search_document_value(product)
            /\ IsSearchDocumentOf(product.search_document, product)
    /\ \A pk \in DOMAIN product_rows :
            product_rows[pk].search_document # <<>> =>
                IsSearchDocumentOf(product_rows[pk].search_document, product_rows[pk])

\* An indexed product with valued attributes of a dropdown, a rich-text, a
\* numeric (with unit) and a date input type, and one of another input type;
\* some rendered text has an uppercase character.
C9_Witness ==
    /\ product.search_vector # None
    /\ \A input_type \in {DROPDOWN, RICH_TEXT, NUMERIC, DATE, FILE} :
            \E i \in 1..Len(product.attributes) :
                /\ product.attributes[i].attribute.input_type = input_type
                /\ product.attributes[i].values # <<>>
                /\ input_type = NUMERIC => product.attributes[i].attribute.unit # None
    /\ \E i \in 1..Len(Entries(product)) : Entries(product)[i] # lower(Entries(product)[i])
    /\ Contains(product.search_document, <<"1", "0", "k", "g", "\n">>)
    /\ Contains(product.search_document,
                <<"2", "0", "2", "1", "-", "0", "9", "-", "0", "1", "t", "1", "2", ":",
                  "0", "0", ":", "0", "5", "+", "0", "0", ":", "0", "0", "\n">>)
    /\ Contains(product.search_document, <<"h", "i", " ", "y", "o", "u", "\n">>)

(***************************************************************************)
(* Payment action response                                                 *)
(***************************************************************************)

\* json.loads of false
JFalse == <<"false", <<>>>>

\* A JSON object with members: a dict of JSON values.
JObjectOf(members) == <<"object", members>>

\* bool(value) of a JSON value as json.loads gives it: None, 0 and the empty
\* str, list and dict are falsy.
Truthy(value) ==
    CASE value[1] = "null" -> FALSE
      [] value[1] = "false" -> FALSE
      [] value[1] = "number" -> IntBodyValue(value[2]) # 0
      [] value[1] \in {"string", "array", "object"} -> DOMAIN value[2] # {}

\* obj.get(key, default)
Get(obj, key, default) == IF key \in DOMAIN obj THEN obj[key] ELSE default

PaymentMethodInfo(payment_method_data) ==
    [brand |-> Get(payment_method_data, "brand", JNull),
     exp_month |-> Get(payment_method_data, "exp_month", JNull),
     exp_year |-> Get(payment_method_data, "exp_year", JNull),
     last_4 |-> Get(payment_method_data, "last_4", JNull),
     name |-> Get(payment_method_data, "name", JNull),
     type |-> Get(payment_method_data, "type", JNull)]

\* The exceptions the except clause around the conversion of the amount
\* catches: decimal.DecimalException and its subclasses.
CaughtByParsePaymentActionResponse == {"DecimalException", "InvalidOperation"}

parse_payment_action_response(payment_info, response_data, transaction_kind) ==
    LET error == Get(response_data, "error", JNull)
        is_success == ~Truthy(error)
        payment_method_data == Get(response_data, "payment_method", JNull)
    IN
    \* .get of a truthy value that is not a dict
    IF Truthy(payment_method_data) /\ payment_method_data[1] # "object"
    THEN Raised("AttributeError")
    ELSE
    LET payment_method_info ==
            IF Truthy(payment_method_data)
            THEN Some(PaymentMethodInfo(payment_method_data[2]))
            ELSE None
        converted ==
            IF "amount" \in DOMAIN response_data
            THEN Decimal(response_data["amount"])
            ELSE Returned(payment_info.amount)
        amount ==
            IF converted.raised = "" THEN converted.value ELSE payment_info.amount
    IN
    IF converted.raised \notin CaughtByParsePaymentActionResponse \cup {""}
    THEN Raised(converted.raised)
    ELSE Returned(
        [action_required |-> Get(response_data, "action_required", JFalse),
         action_required_data |-> Get(response_data, "action_required_data", JNull),
         amount |-> amount,
         currency |-> payment_info.currency,
         customer_id |-> Get(response_data, "customer_id", JNull),
         error |-> error,
         is_success |-> is_success,
         kind |-> Get(response_data, "kind", JString(transaction_kind)),
         payment_method_info |-> payment_method_info,
         raw_response |-> response_data,
         psp_reference |-> Get(response_data, "psp_reference", JNull),
         transaction_id |-> Get(response_data, "transaction_id", JString(<<>>)),
         transaction_already_processed |->
            Get(response_data, "transaction_already_processed", JFalse)])

\* The dict with the given <<key, value>> items, one per key.
DictOf(items) ==
    [key \in {item[1] : item \in items} |->
        (CHOOSE item \in items : item[1] = key)[2]]

\* A key left out, or sent with one of the values.
Sent(key, values) == {{}} \cup {{<<key, value>>} : value \in values}

Errors == { JNull, JString(<<>>), JString(<<"d", "e", "c", "l", "i", "n", "e", "d">>) }

Amounts == OtherAmounts \cup {GoodAmount, JString(<<>>)}

PaymentMethods ==
    { JObject,
      JObjectOf(DictOf({<<"brand", JString(<<"v", "i", "s", "a">>)>>,
                        <<"last_4", JString(<<"4", "2", "4", "2">>)>>})),
      JString(<<"c", "a", "r", "d">>) }

TransactionKinds == { <<"a", "u", "t", "h">>, <<"c", "a", "p", "t", "u", "r", "e">> }

PaymentResponses ==
    {DictOf(error \cup amount \cup payment_method \cup kind) :
        error \in Sent("error", Errors),
        amount \in Sent("amount", Amounts),
        payment_method \in Sent("payment_method", PaymentMethods),
        kind \in Sent("kind", {JString(<<"r", "e", "f", "u", "n", "d">>)})}

\* PaymentData: 10.00 USD, 7 USD.
PaymentInformations ==
    {[amount |-> amount, currency |-> <<"U", "S", "D">>] :
        amount \in {<<0, 1000, -2>>, <<0, 7, 0>>}}

InitPayment ==
    /\ payment_information \in PaymentInformations
    /\ payment_response \in PaymentResponses
    /\ gateway_response = None

ParsePaymentActionResponse(transaction_kind) ==
    /\ gateway_response = None
    /\ gateway_response' = Some(parse_payment_action_response(
                                    payment_information, payment_response,
                                    transaction_kind))
    /\ UNCHANGED <<payment_information, payment_response>>

NextPayment ==
    \/ /\ \E transaction_kind \in TransactionKinds :
            ParsePaymentActionResponse(transaction_kind)
       /\ UNCHANGED <<trackerVars, appIdVars, taxVars, searchVars>>

\* The payment parser on its own.
PaymentOnly == InitPayment /\ InitTracker /\ IdleAppId /\ IdleTax /\ IdleSearch

SpecPayment == PaymentOnly /\ [][NextPayment]_vars

\* The response's payment_method is one the parser can read: absent, falsy
\* or an object.
ReadablePaymentMethod(response_data) ==
    LET payment_method_data == Get(response_data, "payment_method", JNull) IN
    ~Truthy(payment_method_data) \/ payment_method_data[1] = "object"

\* The response has an amount and Decimal converts it.
ConvertibleAmount(response_data) ==
    /\ "amount" \in DOMAIN response_data
    /\ Decimal(response_data["amount"]).raised = ""

\* C11: parse_payment_action_response never raises because of the response's
\* amount: it returns, the returned amount is the decimal value of
\* response_data["amount"] when the key is present and convertible, and
\* payment_information.amount when the key is absent or its value cannot be
\* converted (null included); is_success is true exactly when the error is
\* absent or falsy.
C11_AmountNeverRaises ==
    (gateway_response # None /\ ReadablePaymentMethod(payment_response)) =>
        /\ gateway_response[1].raised = ""
        /\ gateway_response[1].value.amount =
                IF ConvertibleAmount(payment_response)
                THEN Decimal(payment_response["amount"]).value
                ELSE payment_information.amount
        /\ gateway_response[1].value.is_success =
                ~Truthy(Get(payment_response, "error", JNull))

====
